---- MODULE Spec2Model ----
(***************************************************************************)
(* Model of scripts/controller.py (BD SelfScan Kubernetes controller):     *)
(* the application registry and its loader, the label-selector matcher,    *)
(* the deployment-event handler, the watch loop and the asyncio tasks the  *)
(* controller runs on one event loop.                                      *)
(*                                                                         *)
(* Python strings that the code formats, splits or strips are sequences of *)
(* one-character strings, so that formatting and parsing are computed.     *)
(***************************************************************************)
EXTENDS Integers, Sequences, FiniteSets, TLC

\* ------------------------------------------------------------------------
\* Bounds
\* ------------------------------------------------------------------------
\* events the watch stream delivers in one run of the model
MaxEvents == 2
\* fragments of a selector string in the matcher specification
MaxFragments == 2
\* steps of the clock in one run of the model
MaxClock == 1
\* jobs a list call returns in the sweep specification
MaxListed == 2

\* ------------------------------------------------------------------------
\* Python string primitives on sequences of characters
\* ------------------------------------------------------------------------
\* `ch in s`
Contains(s, ch) == \E i \in 1..Len(s) : s[i] = ch

\* index of the first occurrence of ch in s, 0 when there is none
FirstIndex(s, ch) ==
    IF Contains(s, ch)
    THEN CHOOSE i \in 1..Len(s) : s[i] = ch /\ \A j \in 1..(i-1) : s[j] # ch
    ELSE 0

\* s.split(ch, 1): at most one split, at the first occurrence
SplitFirst(s, ch) ==
    LET i == FirstIndex(s, ch)
    IN  IF i = 0 THEN <<s>>
        ELSE <<SubSeq(s, 1, i-1), SubSeq(s, i+1, Len(s))>>

\* s.split(ch): every occurrence separates; "" splits to [""]
RECURSIVE SplitAll(_, _)
SplitAll(s, ch) ==
    LET i == FirstIndex(s, ch)
    IN  IF i = 0 THEN <<s>>
        ELSE <<SubSeq(s, 1, i-1)>> \o SplitAll(SubSeq(s, i+1, Len(s)), ch)

\* s.strip(): leading and trailing blanks removed
RECURSIVE Strip(_)
Strip(s) ==
    IF s = <<>> THEN s
    ELSE IF Head(s) = " " THEN Strip(Tail(s))
    ELSE IF s[Len(s)] = " " THEN Strip(SubSeq(s, 1, Len(s)-1))
    ELSE s

\* ch.join(parts)
RECURSIVE Join(_, _)
Join(parts, ch) ==
    IF parts = <<>> THEN <<>>
    ELSE IF Len(parts) = 1 THEN parts[1]
    ELSE parts[1] \o <<ch>> \o Join(Tail(parts), ch)

\* ------------------------------------------------------------------------
\* Selector matching (_find_matching_application, lines 203-215)
\* ------------------------------------------------------------------------
\* required_labels[k] = v on a dict: a later assignment to k replaces
DictPut(d, k, v) == [x \in (DOMAIN d) \cup {k} |-> IF x = k THEN v ELSE d[x]]

EmptyDict == [x \in {} |-> <<>>]

\* mutant of ParseFragment: a fragment with no '=' requires the label to
\* exist with an empty value instead of being skipped
ParseFragmentStrict(d, frag) ==
    IF Contains(frag, "=")
    THEN LET kv == SplitFirst(Strip(frag), "=") IN DictPut(d, kv[1], kv[2])
    ELSE DictPut(d, Strip(frag), <<>>)

\* the body of `for label_pair in label_selector.split(',')`
ParseFragment(d, frag) ==
    IF Contains(frag, "=")
    THEN LET kv == SplitFirst(Strip(frag), "=") IN DictPut(d, kv[1], kv[2])
    ELSE d

RECURSIVE ParseFragments(_, _)
ParseFragments(d, frags) ==
    IF frags = <<>> THEN d
    ELSE ParseFragments(ParseFragment(d, Head(frags)), Tail(frags))

\* required_labels of a selector string
RequiredLabels(sel) == ParseFragments(EmptyDict, SplitAll(sel, ","))

\* the `match` flag: labels.get(req_key) != req_value for no required key
Matches(sel, labels) ==
    LET req == RequiredLabels(sel)
    IN  \A k \in DOMAIN req : k \in DOMAIN labels /\ labels[k] = req[k]

\* ------------------------------------------------------------------------
\* Data: namespaces, selectors, application records, configuration documents
\* ------------------------------------------------------------------------
\* self.namespace, the namespace the controller runs in (line 74)
ControllerNamespace == <<"b","d">>

NsShop == <<"s">>
NsTeam == <<"t">>
EventNamespaces == {NsShop, NsTeam}

SelA1 == <<"a","=","1">>
SelB1 == <<"b","=","1">>
SelA1A2 == <<"a","=","1",",","a","=","2">>

\* records of the `applications` list; a field may be missing from a record
AppA == [name |-> <<"A">>, namespace |-> NsShop, labelSelector |-> SelA1,
         scanOnDeploy |-> TRUE]
AppB == [name |-> <<"B">>, namespace |-> NsShop, labelSelector |-> SelB1,
         scanOnDeploy |-> TRUE]
AppOff == [name |-> <<"C">>, namespace |-> NsShop, labelSelector |-> SelB1,
           scanOnDeploy |-> FALSE]
AppNoGate == [name |-> <<"D">>, namespace |-> NsTeam, labelSelector |-> SelA1]
AppNoNamespace == [name |-> <<"E">>, labelSelector |-> SelA1,
                   scanOnDeploy |-> TRUE]
AppNoName == [namespace |-> NsTeam, labelSelector |-> SelB1,
              scanOnDeploy |-> TRUE]
AppTwice == [name |-> <<"F">>, namespace |-> NsTeam, labelSelector |-> SelA1A2,
             scanOnDeploy |-> TRUE]

\* what read_namespaced_config_map and yaml.safe_load can hand to the loader
Doc(kind) == [kind |-> kind, apps |-> <<>>]
DocApps(apps) == [kind |-> "applications", apps |-> apps]

Documents ==
    { Doc("retrieval_error"),    \* the read raises ApiException
      Doc("no_data_field"),      \* config_map.data is None
      Doc("no_document"),        \* no 'applications.yaml' entry, or an empty one
      Doc("yaml_error"),         \* yaml.safe_load raises
      Doc("not_a_mapping"),      \* the document is a scalar, a list or null
      Doc("no_applications"),    \* a mapping without the `applications` key
      Doc("null_applications"),  \* `applications:` with no value
      DocApps(<<>>),
      DocApps(<<AppA>>),
      DocApps(<<AppA, AppB>>),
      DocApps(<<AppOff, AppA, AppNoGate>>),
      DocApps(<<AppB, AppNoNamespace, AppA>>),
      DocApps(<<AppNoName, AppA>>),
      DocApps(<<AppTwice>>) }

\* ------------------------------------------------------------------------
\* The registry: self.applications_config, an insertion-ordered dict
\* (a sequence of entries with distinct keys)
\* ------------------------------------------------------------------------
\* f"{app['namespace']}:{app['labelSelector']}"
MakeKey(ns, sel) == ns \o <<":">> \o sel

HasKey(reg, key) == \E i \in 1..Len(reg) : reg[i].key = key

\* mutant of RegistryPut: a known key keeps the record it has
RegistryPutFirst(reg, key, app) ==
    IF HasKey(reg, key) THEN reg ELSE Append(reg, [key |-> key, app |-> app])

\* self.applications_config[key] = app: a known key keeps its position
RegistryPut(reg, key, app) ==
    IF HasKey(reg, key)
    THEN [i \in 1..Len(reg) |->
            IF reg[i].key = key THEN [key |-> key, app |-> app] ELSE reg[i]]
    ELSE Append(reg, [key |-> key, app |-> app])

\* mutant of ScanOnDeployGate: every record passes
ScanOnDeployGateOpen(app) == TRUE

\* app.get('scanOnDeploy', False)
ScanOnDeployGate(app) ==
    IF "scanOnDeploy" \in DOMAIN app THEN app.scanOnDeploy ELSE FALSE

\* the `for app in applications` loop of the loader; raised tells that a
\* KeyError left the loop, with the index as built up to that point
RECURSIVE IndexApplications(_, _)
IndexApplications(reg, apps) ==
    IF apps = <<>> THEN [registry |-> reg, raised |-> FALSE]
    ELSE LET app == Head(apps) IN
         IF ~ScanOnDeployGate(app)
         THEN IndexApplications(reg, Tail(apps))
         ELSE IF ~({"namespace", "labelSelector"} \subseteq DOMAIN app)
         THEN [registry |-> reg, raised |-> TRUE]
         ELSE LET put == RegistryPut(reg, MakeKey(app.namespace, app.labelSelector), app)
              IN  IF "name" \notin DOMAIN app
                  THEN [registry |-> put, raised |-> TRUE]
                  ELSE IndexApplications(put, Tail(apps))

\* _load_applications_config: the registry it leaves, the line it logs and
\* whether it clears the health gauge
LoadApplicationsConfig(reg, doc) ==
    CASE doc.kind = "retrieval_error" ->
           [registry |-> reg, log |-> "api_error", unhealthy |-> TRUE]
      [] doc.kind \in {"no_data_field", "yaml_error", "not_a_mapping"} ->
           [registry |-> reg, log |-> "parse_error", unhealthy |-> TRUE]
      [] doc.kind = "no_document" ->
           [registry |-> reg, log |-> "no_configuration", unhealthy |-> FALSE]
      [] doc.kind = "no_applications" ->
           [registry |-> <<>>, log |-> "loaded", unhealthy |-> FALSE]
      [] doc.kind = "null_applications" ->
           [registry |-> <<>>, log |-> "parse_error", unhealthy |-> TRUE]
      [] doc.kind = "applications" ->
           LET built == IndexApplications(<<>>, doc.apps) IN
           IF built.raised
           THEN [registry |-> built.registry, log |-> "parse_error", unhealthy |-> TRUE]
           ELSE [registry |-> built.registry, log |-> "loaded", unhealthy |-> FALSE]

\* ------------------------------------------------------------------------
\* Lookup (_find_matching_application)
\* ------------------------------------------------------------------------
\* the loop over self.applications_config.items() from entry i on: "found"
\* with the index of the entry returned, "none", or "raised" when the debug
\* line of a matching entry reads a name the record does not have
RECURSIVE FindFrom(_, _, _, _)
FindFrom(reg, i, ns, labels) ==
    IF i > Len(reg) THEN [status |-> "none", index |-> 0]
    ELSE LET parts == SplitFirst(reg[i].key, ":") IN
         IF parts[1] # ns THEN FindFrom(reg, i+1, ns, labels)
         ELSE IF Matches(parts[2], labels)
         THEN IF "name" \in DOMAIN reg[i].app
              THEN [status |-> "found", index |-> i]
              ELSE [status |-> "raised", index |-> i]
         ELSE FindFrom(reg, i+1, ns, labels)

FindMatchingApplication(reg, ns, labels) == FindFrom(reg, 1, ns, labels)

\* ------------------------------------------------------------------------
\* Deployment events
\* ------------------------------------------------------------------------
EventTypes == {"ADDED", "MODIFIED", "DELETED"}

Key(c) == <<c>>
LabelSets ==
    { EmptyDict,
      [k \in {Key("a")} |-> <<"1">>],
      [k \in {Key("a")} |-> <<"2">>],
      [k \in {Key("b")} |-> <<"1">>],
      [k \in {Key("a"), Key("b")} |-> <<"1">>] }

Events == [type : EventTypes, namespace : EventNamespaces, labels : LabelSets]

\* the loop variable `event` when no event is being handled
NoEvent == [type |-> "NONE", namespace |-> <<>>, labels |-> EmptyDict]

\* event_type in ['ADDED', 'MODIFIED'] (line 420)
ForwardedTypes == {"ADDED", "MODIFIED"}

\* f"deployment-{event_type.lower()}" (line 441)
Trigger(type) ==
    CASE type = "ADDED" -> "deployment-added"
      [] type = "MODIFIED" -> "deployment-modified"
      [] type = "DELETED" -> "deployment-deleted"

\* str.lower() on the letters application names are written with
Lower(c) ==
    CASE c = "A" -> "a" [] c = "B" -> "b" [] c = "C" -> "c"
      [] c = "D" -> "d" [] c = "E" -> "e" [] c = "F" -> "f"
      [] OTHER -> c

\* app_name.lower().replace(' ', '-').replace('_', '-') (line 231)
SafeAppName(app_name) ==
    [i \in 1..Len(app_name) |->
        LET c == Lower(app_name[i]) IN IF c \in {" ", "_"} THEN "-" ELSE c]

\* f"bd-selfscan-auto-{safe_app_name}-{timestamp}" (line 232); the timestamp
\* is datetime.now() formatted to the second
JobName(app_name, now) ==
    [prefix |-> "bd-selfscan-auto", app |-> SafeAppName(app_name), timestamp |-> now]

\* the job _build_job_spec describes and create_namespaced_job submits:
\* metadata.name, metadata.namespace, the trigger label and the application
\* annotation
JobSpec(app, trigger, job_name) ==
    [namespace |-> ControllerNamespace, trigger |-> trigger,
     application |-> app.name, name |-> job_name]

\* lastSubmit before the first call
NoJob == [namespace |-> <<>>, trigger |-> "none", application |-> <<>>,
          name |-> JobName(<<>>, 0)]

\* ------------------------------------------------------------------------
\* The cluster's scan jobs as list_namespaced_job shows them: metadata.name,
\* status.failed, the scan-type=automated label and, once the job has
\* completed, status.completion_time (an hour of UTC)
\* ------------------------------------------------------------------------
\* the job the cluster holds once it has accepted a submission
NewJob(spec) == [name |-> spec.name, failed |-> FALSE, automated |-> TRUE]

NameTaken(js, name) == \E i \in 1..Len(js) : js[i].name = name

\* how create_namespaced_job can end: the job is created, the API server
\* refuses it (ApiException), or the call raises another exception
CreateAnswers == {"created", "ApiException", "Exception"}

\* job names are unique in a namespace: a name in use is never accepted
PossibleAnswers(js, name) ==
    IF NameTaken(js, name) THEN CreateAnswers \ {"created"} ELSE CreateAnswers

\* mutant of CreateScanJob: every submission is reported as created
CreateScanJobAlways(answer) == TRUE

\* the value _create_scan_job returns, which is also whether it has counted
\* the job as created and active (lines 243-247) or as failed (249-256)
CreateScanJob(answer) == answer = "created"

\* timedelta(hours=24) (line 483)
Retention == 24

\* datetime.now(): the naive local time of the process
LocalNow(utc, tz) == utc + tz

\* datetime.now() - timedelta(hours=24) (line 483)
CutoffTime(utc, tz) == LocalNow(utc, tz) - Retention

\* job.status.completion_time.replace(tzinfo=None): the UTC reading, its
\* zone dropped
NaiveCompletionTime(job) == job.completion_time

\* the two tests of the sweep on a listed job (lines 491-493)
SweepSelects(job, cutoff) ==
    /\ "completion_time" \in DOMAIN job
    /\ NaiveCompletionTime(job) < cutoff

\* how delete_namespaced_job can end: the job is deleted, the call raises
\* ApiException, or it raises another exception
DeleteOutcomes == {"deleted", "ApiException", "Exception"}

RemoveJob(js, name) == SelectSeq(js, LAMBDA j : j.name # name)

\* the `for job in jobs.items` loop of the sweep from job i on; st holds the
\* cluster's jobs, the gauge and whether an exception left the loop
RECURSIVE SweepJobs(_, _, _, _, _)
SweepJobs(listed, i, outcome, cutoff, st) ==
    IF i > Len(listed) THEN st
    ELSE IF ~SweepSelects(listed[i], cutoff)
    THEN SweepJobs(listed, i+1, outcome, cutoff, st)
    ELSE CASE outcome[i] = "deleted" ->
                SweepJobs(listed, i+1, outcome, cutoff,
                          [jobs |-> RemoveJob(st.jobs, listed[i].name),
                           gauge |-> st.gauge - 1, aborted |-> FALSE])
           [] outcome[i] = "ApiException" ->
                SweepJobs(listed, i+1, outcome, cutoff, st)
           [] outcome[i] = "Exception" ->
                [st EXCEPT !.aborted = TRUE]

\* label_selector "app.kubernetes.io/name=bd-selfscan,scan-type=automated"
SweepListed(js) == SelectSeq(js, LAMBDA j : j.automated)

\* mutant of ActiveCount: every listed job is counted
ActiveCountAll(js) == Len(js)

\* active_count of the monitor (lines 523-526)
ActiveCount(js) ==
    Cardinality({ i \in 1..Len(js) :
                    "completion_time" \notin DOMAIN js[i] /\ ~js[i].failed })

\* ------------------------------------------------------------------------
\* State
\* ------------------------------------------------------------------------
VARIABLES
    mainPc,           \* main(): "new", "constructed", "running"
    registry,         \* self.applications_config
    generation,       \* history: the index the last completed load published
    loadLog,          \* the line the last run of the loader logged
    health,           \* CONTROLLER_HEALTH
    watchPc,          \* position of watch_deployments
    event,            \* the event watch_deployments is handling
    eventsProcessed,  \* DEPLOYMENT_EVENTS, summed over its labels
    eventErrors,      \* how often the watch loop has logged a failed event
    submitCalls,      \* how often create_namespaced_job has been called
    lastSubmit,       \* namespace and body of its most recent call
    jobsCreated,      \* SCAN_JOBS_CREATED, summed over its labels
    jobsFailed,       \* SCAN_JOBS_FAILED, summed over its labels
    activeScans,      \* ACTIVE_SCANS
    jobs,             \* the scan jobs of the controller's namespace, in list order
    taskPc,           \* position of cleanup_old_jobs, monitor_scan_jobs, reload_config
    readyQ,           \* the event loop's queue of tasks ready to run
    current,          \* the task that holds the event loop, or "idle"
    second,           \* datetime.now() of the process, counted in seconds
    hour,             \* the cluster's UTC time, counted in hours
    tzOffset,         \* hours the process's local time is ahead of UTC
    escaped,          \* the exception that left a task's loop, or "none"
    mSel, mLabels, mDone, mResult,  \* the matcher applied to one input
    lReg, lNs, lLabels, lDone, lResult, \* the lookup applied to one input
    sJobs, sTz, sOutcome, sDone, sResult \* one sweep pass applied to one input

envVars == <<second, hour, tzOffset, escaped>>
ctlVars == <<mainPc, registry, generation, loadLog, health, watchPc, event,
             eventsProcessed, eventErrors, submitCalls, lastSubmit, jobsCreated, jobsFailed, activeScans, jobs, taskPc, readyQ, current, envVars>>
matchVars == <<mSel, mLabels, mDone, mResult>>
lookVars == <<lReg, lNs, lLabels, lDone, lResult>>
sweepVars == <<sJobs, sTz, sOutcome, sDone, sResult>>
auxVars == <<matchVars, lookVars, sweepVars>>
vars == <<ctlVars, auxVars>>

TimerTasks == {"sweep", "monitor", "reload"}

\* the process before main() has constructed the controller
CtlStart ==
    /\ mainPc = "new"
    /\ registry = <<>>
    /\ generation = <<>>
    /\ loadLog = "none"
    /\ health = 0
    /\ watchPc = "created"
    /\ event = NoEvent
    /\ eventsProcessed = 0
    /\ eventErrors = 0
    /\ submitCalls = 0
    /\ lastSubmit = NoJob
    /\ jobsCreated = 0
    /\ jobsFailed = 0
    /\ activeScans = 0
    /\ taskPc = [t \in TimerTasks |-> "created"]
    /\ readyQ = <<>>
    /\ current = "idle"
    /\ second = 0
    /\ hour = 0
    /\ escaped = "none"

\* a cluster with no scan jobs, a process whose local time is UTC
CtlInit ==
    /\ CtlStart
    /\ jobs = <<>>
    /\ tzOffset = 0

MatchIdle ==
    /\ mSel = <<>>
    /\ mLabels = EmptyDict
    /\ mDone = FALSE
    /\ mResult = FALSE

LookIdle ==
    /\ lReg = <<>>
    /\ lNs = <<>>
    /\ lLabels = EmptyDict
    /\ lDone = FALSE
    /\ lResult = [status |-> "none", index |-> 0]

SweepIdle ==
    /\ sJobs = <<>>
    /\ sTz = 0
    /\ sOutcome = <<>>
    /\ sDone = FALSE
    /\ sResult = [jobs |-> <<>>, gauge |-> 0, aborted |-> FALSE]

Init == CtlInit /\ MatchIdle /\ LookIdle /\ SweepIdle

\* ------------------------------------------------------------------------
\* Construction and start (__init__, run)
\* ------------------------------------------------------------------------
\* one run of _load_applications_config on the document the read returns
ApplyLoad(doc) ==
    LET r == LoadApplicationsConfig(registry, doc) IN
    /\ registry' = r.registry
    /\ loadLog' = r.log
    /\ generation' = IF r.log = "loaded" THEN r.registry ELSE generation

\* the gauge after a load: CONTROLLER_HEALTH.set(0) in both except branches
HealthAfterLoad(doc, h) ==
    IF LoadApplicationsConfig(registry, doc).unhealthy THEN 0 ELSE h

\* __init__: the initial load, then CONTROLLER_HEALTH.set(1) (lines 92-98)
Construct ==
    /\ mainPc = "new"
    /\ \E doc \in Documents : ApplyLoad(doc)
    /\ health' = 1
    /\ mainPc' = "constructed"
    /\ UNCHANGED <<watchPc, event, eventsProcessed, eventErrors, submitCalls, lastSubmit, jobsCreated,
                   jobsFailed, activeScans, jobs, taskPc, readyQ, current, envVars, auxVars>>

\* run: the four tasks are created, in this order (lines 551-556)
Run ==
    /\ mainPc = "constructed"
    /\ mainPc' = "running"
    /\ readyQ' = <<"watch", "sweep", "monitor", "reload">>
    /\ UNCHANGED <<registry, generation, loadLog, health, watchPc, event,
                   eventsProcessed, eventErrors, submitCalls, lastSubmit, jobsCreated, jobsFailed,
                   activeScans, jobs, taskPc, current, envVars, auxVars>>

\* ------------------------------------------------------------------------
\* The event handler (_process_deployment_event, _create_scan_job)
\* ------------------------------------------------------------------------
\* the jobs the handler submits for an event: none or one
Submitted(reg, ev, now) ==
    IF ev.type \notin ForwardedTypes THEN <<>>
    ELSE LET m == FindMatchingApplication(reg, ev.namespace, ev.labels) IN
         IF m.status # "found" THEN <<>>
         ELSE IF ~ScanOnDeployGate(reg[m.index].app) THEN <<>>
         ELSE LET app == reg[m.index].app IN
              <<JobSpec(app, Trigger(ev.type), JobName(app.name, now))>>

\* _process_deployment_event raises: the lookup's debug line reads the name
\* of a matching record that has none (line 218)
HandlerRaises(reg, ev) ==
    /\ ev.type \in ForwardedTypes
    /\ FindMatchingApplication(reg, ev.namespace, ev.labels).status = "raised"

\* ------------------------------------------------------------------------
\* watch_deployments
\* ------------------------------------------------------------------------
\* the event loop runs the task for the first time
WatchStart ==
    /\ current = "idle" /\ readyQ # <<>> /\ Head(readyQ) = "watch"
    /\ watchPc = "created"
    /\ readyQ' = Tail(readyQ)
    /\ current' = "watch"
    /\ watchPc' = "connecting"
    /\ UNCHANGED <<mainPc, registry, generation, loadLog, health, event,
                   eventsProcessed, eventErrors, submitCalls, lastSubmit, jobsCreated, jobsFailed,
                   activeScans, jobs, taskPc, envVars, auxVars>>

\* w.stream(...): a new watch connection (lines 449-453)
WatchConnect ==
    /\ current = "watch" /\ watchPc = "connecting"
    /\ watchPc' = "streaming"
    /\ UNCHANGED <<mainPc, registry, generation, loadLog, health, event,
                   eventsProcessed, eventErrors, submitCalls, lastSubmit, jobsCreated, jobsFailed,
                   activeScans, jobs, taskPc, readyQ, current, envVars, auxVars>>

\* `for event in stream` yields the next event, one of evs; the pull blocks
\* the thread and does not give the event loop back
WatchNextEventOf(evs) ==
    /\ current = "watch" /\ watchPc = "streaming"
    /\ eventsProcessed < MaxEvents
    /\ \E ev \in evs : event' = ev
    /\ watchPc' = "processing"
    /\ UNCHANGED <<mainPc, registry, generation, loadLog, health,
                   eventsProcessed, eventErrors, submitCalls, lastSubmit, jobsCreated, jobsFailed,
                   activeScans, jobs, taskPc, readyQ, current, envVars, auxVars>>

WatchNextEvent == WatchNextEventOf(Events)

\* mutant of PcAfterEvent: an event whose handling raised ends the stream
PcAfterEventAbort(raised) == IF raised THEN "retry_sleep" ELSE "streaming"

\* where the watch loop goes after an event: `continue` in the except branch
\* of the loop body, the next round of the `for` otherwise (lines 455-460)
PcAfterEvent(raised) == "streaming"

\* the loop body: _process_deployment_event(event), its exceptions caught
\* (lines 456-460); answer is how the cluster answers the submission
WatchProcessEvent ==
    /\ current = "watch" /\ watchPc = "processing"
    /\ eventsProcessed' = eventsProcessed + 1
    /\ LET sub == Submitted(registry, event, second) IN
       \E answer \in CreateAnswers :
         /\ IF sub = <<>> THEN answer = "created"
                          ELSE answer \in PossibleAnswers(jobs, sub[1].name)
         /\ submitCalls' = submitCalls + Len(sub)
         /\ lastSubmit' = IF sub # <<>> THEN sub[1] ELSE lastSubmit
         /\ jobsCreated' = IF sub # <<>> /\ CreateScanJob(answer)
                           THEN jobsCreated + 1 ELSE jobsCreated
         /\ activeScans' = IF sub # <<>> /\ CreateScanJob(answer)
                           THEN activeScans + 1 ELSE activeScans
         /\ jobsFailed' = IF sub # <<>> /\ ~CreateScanJob(answer)
                          THEN jobsFailed + 1 ELSE jobsFailed
         /\ jobs' = IF sub # <<>> /\ answer = "created"
                    THEN Append(jobs, NewJob(sub[1])) ELSE jobs
    /\ eventErrors' = IF HandlerRaises(registry, event)
                      THEN eventErrors + 1 ELSE eventErrors
    /\ event' = NoEvent
    /\ watchPc' = PcAfterEvent(HandlerRaises(registry, event))
    /\ UNCHANGED <<mainPc, registry, generation, loadLog, health, taskPc,
                   readyQ, current, envVars, auxVars>>

\* the stream ends at its timeout_seconds: the iteration falls through to
\* CONTROLLER_HEALTH.set(1) (line 472) and the loop reconnects
WatchIdleTimeout ==
    /\ current = "watch" /\ watchPc = "streaming"
    /\ health' = 1
    /\ watchPc' = "connecting"
    /\ UNCHANGED <<mainPc, registry, generation, loadLog, event,
                   eventsProcessed, eventErrors, submitCalls, lastSubmit, jobsCreated, jobsFailed,
                   activeScans, jobs, taskPc, readyQ, current, envVars, auxVars>>

\* mutant of HealthAfterStreamError: the except branches leave the gauge
HealthAfterStreamErrorKept(h) == h

\* CONTROLLER_HEALTH.set(0) in both except branches (lines 464, 468)
HealthAfterStreamError(h) == 0

\* the stream raises (ApiException or any other exception): the gauge is
\* cleared and the task awaits asyncio.sleep(30) (lines 462-469)
WatchStreamError ==
    /\ current = "watch" /\ watchPc = "streaming"
    /\ \E kind \in {"ApiException", "Exception"} :
         /\ health' = HealthAfterStreamError(health)
         /\ watchPc' = "retry_sleep"
    /\ current' = "idle"
    /\ UNCHANGED <<mainPc, registry, generation, loadLog, event,
                   eventsProcessed, eventErrors, submitCalls, lastSubmit, jobsCreated, jobsFailed,
                   activeScans, jobs, taskPc, readyQ, envVars, auxVars>>

\* the sleep of the except branch is over: the task is ready again
WatchRetryTimer ==
    /\ current = "idle" /\ watchPc = "retry_sleep"
    /\ watchPc' = "retry_ready"
    /\ readyQ' = Append(readyQ, "watch")
    /\ UNCHANGED <<mainPc, registry, generation, loadLog, health, event,
                   eventsProcessed, eventErrors, submitCalls, lastSubmit, jobsCreated, jobsFailed,
                   activeScans, jobs, taskPc, current, envVars, auxVars>>

\* the statement after the try of the iteration that failed (line 472)
HealthAfterRetry(h) == 1

\* the task resumes after the sleep: line 472, then the next iteration
WatchResume ==
    /\ current = "idle" /\ readyQ # <<>> /\ Head(readyQ) = "watch"
    /\ watchPc = "retry_ready"
    /\ readyQ' = Tail(readyQ)
    /\ current' = "watch"
    /\ health' = HealthAfterRetry(health)
    /\ watchPc' = "connecting"
    /\ UNCHANGED <<mainPc, registry, generation, loadLog, event,
                   eventsProcessed, eventErrors, submitCalls, lastSubmit, jobsCreated, jobsFailed,
                   activeScans, jobs, taskPc, envVars, auxVars>>

\* ------------------------------------------------------------------------
\* cleanup_old_jobs, monitor_scan_jobs, reload_config
\* ------------------------------------------------------------------------
\* the event loop runs a task for the first time: it reaches its first
\* `await asyncio.sleep(...)`
TaskStart(t) ==
    /\ current = "idle" /\ readyQ # <<>> /\ Head(readyQ) = t
    /\ taskPc[t] = "created"
    /\ readyQ' = Tail(readyQ)
    /\ taskPc' = [taskPc EXCEPT ![t] = "sleeping"]
    /\ UNCHANGED <<mainPc, registry, generation, loadLog, health, watchPc,
                   event, eventsProcessed, eventErrors, submitCalls, lastSubmit, jobsCreated, jobsFailed,
                   activeScans, jobs, current, envVars, auxVars>>

\* a sleep is over; the event loop sees it only when no task is running
TaskTimer(t) ==
    /\ current = "idle" /\ taskPc[t] = "sleeping"
    /\ taskPc' = [taskPc EXCEPT ![t] = "ready"]
    /\ readyQ' = Append(readyQ, t)
    /\ UNCHANGED <<mainPc, registry, generation, loadLog, health, watchPc,
                   event, eventsProcessed, eventErrors, submitCalls, lastSubmit, jobsCreated, jobsFailed,
                   activeScans, jobs, current, envVars, auxVars>>

\* one iteration of reload_config: the load, then the next sleep
ReloadIteration ==
    /\ current = "idle" /\ readyQ # <<>> /\ Head(readyQ) = "reload"
    /\ taskPc["reload"] = "ready"
    /\ \E doc \in Documents :
         /\ ApplyLoad(doc)
         /\ health' = HealthAfterLoad(doc, health)
    /\ readyQ' = Tail(readyQ)
    /\ taskPc' = [taskPc EXCEPT !["reload"] = "sleeping"]
    /\ UNCHANGED <<mainPc, watchPc, event, eventsProcessed, eventErrors, submitCalls, lastSubmit,
                   jobsCreated, jobsFailed, activeScans, jobs, current, envVars, auxVars>>

\* one iteration of cleanup_old_jobs (lines 482-507): the list may raise;
\* outcome tells how the deletion of each listed job ends if it is tried
SweepIteration ==
    /\ current = "idle" /\ readyQ # <<>> /\ Head(readyQ) = "sweep"
    /\ taskPc["sweep"] = "ready"
    /\ \E listed \in BOOLEAN :
         LET items == SweepListed(jobs) IN
         \E outcome \in [1..Len(items) -> DeleteOutcomes] :
           LET st == SweepJobs(items, 1, outcome, CutoffTime(hour, tzOffset),
                               [jobs |-> jobs, gauge |-> activeScans,
                                aborted |-> FALSE])
           IN  /\ \A i \in 1..Len(items) :
                      ~listed \/ ~SweepSelects(items[i], CutoffTime(hour, tzOffset))
                        => outcome[i] = "deleted"
               /\ jobs' = IF listed THEN st.jobs ELSE jobs
               /\ activeScans' = IF listed THEN st.gauge ELSE activeScans
    /\ readyQ' = Tail(readyQ)
    /\ taskPc' = [taskPc EXCEPT !["sweep"] = "sleeping"]
    /\ UNCHANGED <<mainPc, registry, generation, loadLog, health, watchPc,
                   event, eventsProcessed, eventErrors, submitCalls, lastSubmit, jobsCreated,
                   jobsFailed, current, envVars, auxVars>>

\* one iteration of monitor_scan_jobs (lines 517-532): the list may raise;
\* the gauge is set to the number of jobs neither completed nor failed
MonitorIteration ==
    /\ current = "idle" /\ readyQ # <<>> /\ Head(readyQ) = "monitor"
    /\ taskPc["monitor"] = "ready"
    /\ \E listed \in BOOLEAN :
         activeScans' = IF listed THEN ActiveCount(jobs) ELSE activeScans
    /\ readyQ' = Tail(readyQ)
    /\ taskPc' = [taskPc EXCEPT !["monitor"] = "sleeping"]
    /\ UNCHANGED <<mainPc, registry, generation, loadLog, health, watchPc,
                   event, eventsProcessed, eventErrors, submitCalls, lastSubmit, jobsCreated,
                   jobsFailed, jobs, current, envVars, auxVars>>

Next ==
    \/ Construct
    \/ Run
    \/ WatchStart
    \/ WatchConnect
    \/ WatchNextEvent
    \/ WatchProcessEvent
    \/ WatchIdleTimeout
    \/ WatchStreamError
    \/ WatchRetryTimer
    \/ WatchResume
    \/ \E t \in TimerTasks : TaskStart(t)
    \/ \E t \in TimerTasks : TaskTimer(t)
    \/ ReloadIteration
    \/ SweepIteration
    \/ MonitorIteration

Spec == Init /\ [][Next]_vars

\* the scheduling the event loop guarantees: a task at the head of the ready
\* queue is run when the loop is free, a sleep ends, and the task that runs
\* takes its next step
FairSpec ==
    /\ Spec
    /\ WF_vars(Construct) /\ WF_vars(Run)
    /\ WF_vars(WatchStart) /\ WF_vars(WatchConnect) /\ WF_vars(WatchProcessEvent)
    /\ WF_vars(WatchIdleTimeout \/ WatchNextEvent \/ WatchStreamError)
    /\ WF_vars(WatchRetryTimer) /\ WF_vars(WatchResume)
    /\ \A t \in TimerTasks : WF_vars(TaskStart(t)) /\ WF_vars(TaskTimer(t))
    /\ WF_vars(ReloadIteration) /\ WF_vars(SweepIteration) /\ WF_vars(MonitorIteration)

\* ------------------------------------------------------------------------
\* The controller with its cluster: scan jobs complete, time passes, the
\* process may run in a time zone other than UTC, and scan jobs of an
\* earlier run may exist when the controller starts. The configuration is
\* one document, loaded once, and the events are Added events of its first
\* application. The specification starts where the first watch connection
\* has failed and the other three tasks sleep.
\* ------------------------------------------------------------------------
JobDocument == DocApps(<<AppA, AppB>>)

JobEvents ==
    { ev \in Events : /\ ev.type = "ADDED"
                      /\ ev.namespace = NsShop
                      /\ ev.labels = [k \in {Key("a")} |-> <<"1">>] }

\* a job an earlier run of the controller created, completed at hour t
OldJob(app_name, t) ==
    [name |-> JobName(app_name, -1), failed |-> FALSE, automated |-> TRUE,
     completion_time |-> t]

\* a running scan job that was not created by the controller: it carries
\* app.kubernetes.io/name=bd-selfscan and no scan-type=automated label
ManualJob ==
    [name |-> [prefix |-> "bd-selfscan-manual", app |-> <<"a">>, timestamp |-> -1],
     failed |-> FALSE, automated |-> FALSE]

\* a job of an earlier run with a failed pod and no completion time
FailedJob ==
    [name |-> JobName(<<"B">>, -1), failed |-> TRUE, automated |-> TRUE]

\* the scan jobs the cluster holds when the controller starts, at hour 0
InitialJobLists ==
    { <<>>,
      <<ManualJob, FailedJob>>,
      <<OldJob(<<"A">>, -25)>>,
      <<OldJob(<<"A">>, -23)>>,
      <<OldJob(<<"A">>, -25), OldJob(<<"B">>, -26)>> }

\* UTC, and a zone two hours ahead of it
TzOffsets == {0, 2}

\* hours that pass in one step of the clock
HourSteps == {Retention}

JobsInit ==
    /\ mainPc = "running"
    /\ registry = LoadApplicationsConfig(<<>>, JobDocument).registry
    /\ generation = registry
    /\ loadLog = "loaded"
    /\ health = 0
    /\ watchPc = "retry_sleep"
    /\ event = NoEvent
    /\ eventsProcessed = 0
    /\ eventErrors = 0
    /\ submitCalls = 0
    /\ lastSubmit = NoJob
    /\ jobsCreated = 0
    /\ jobsFailed = 0
    /\ activeScans = 0
    /\ jobs \in InitialJobLists
    /\ taskPc = [t \in TimerTasks |-> "sleeping"]
    /\ readyQ = <<>>
    /\ current = "idle"
    /\ second = 0
    /\ hour = 0
    /\ tzOffset \in TzOffsets
    /\ escaped = "none"
    /\ MatchIdle /\ LookIdle /\ SweepIdle

\* less than an hour passes
Tick ==
    /\ second < MaxClock
    /\ second' = second + 1
    /\ UNCHANGED <<mainPc, registry, generation, loadLog, health, watchPc, event,
                   eventsProcessed, eventErrors, submitCalls, lastSubmit, jobsCreated, jobsFailed, activeScans, jobs, taskPc, readyQ, current,
                   hour, tzOffset, escaped, auxVars>>

HoursPass(h) ==
    /\ second < MaxClock
    /\ second' = second + 1
    /\ hour' = hour + h
    /\ UNCHANGED <<mainPc, registry, generation, loadLog, health, watchPc, event,
                   eventsProcessed, eventErrors, submitCalls, lastSubmit, jobsCreated, jobsFailed, activeScans, jobs, taskPc, readyQ, current,
                   tzOffset, escaped, auxVars>>

\* the cluster sets a job's status: the job completes, at the present hour
JobCompletes(i) ==
    /\ "completion_time" \notin DOMAIN jobs[i]
    /\ jobs' = [jobs EXCEPT ![i] =
                  [name |-> @.name, failed |-> @.failed, automated |-> @.automated,
                   completion_time |-> hour]]
    /\ UNCHANGED <<mainPc, registry, generation, loadLog, health, watchPc, event,
                   eventsProcessed, eventErrors, submitCalls, lastSubmit, jobsCreated, jobsFailed, activeScans, taskPc, readyQ, current, envVars, auxVars>>

\* the controller's steps from there on, up to the end of the reload's sleep
CoreNext ==
    \/ WatchRetryTimer
    \/ WatchResume
    \/ WatchConnect
    \/ WatchNextEventOf(JobEvents)
    \/ WatchProcessEvent
    \/ WatchIdleTimeout
    \/ WatchStreamError
    \/ TaskTimer("sweep")
    \/ TaskTimer("monitor")
    \/ SweepIteration
    \/ MonitorIteration

JobsNext ==
    \/ CoreNext
    \/ Tick
    \/ \E h \in HourSteps : HoursPass(h)
    \/ \E i \in 1..Len(jobs) : JobCompletes(i)

JobsSpec == JobsInit /\ [][JobsNext]_vars

\* ------------------------------------------------------------------------
\* Shutdown (run, lines 558-569): a task ends with an exception that its loop
\* does not catch; `await asyncio.gather(*tasks)` raises it in run(), which
\* is resumed through the event loop's ready queue like any task
\* ------------------------------------------------------------------------
\* Exception: one raised inside an except branch of the loop; BaseException:
\* one that `except Exception` does not catch
EscapeKinds == {"Exception", "BaseException"}

\* the task t ends with an exception of this kind while it runs
TaskRaises(t, kind) ==
    /\ mainPc = "running" /\ escaped = "none"
    /\ \/ /\ t = "watch" /\ current = "watch"
          /\ watchPc \in {"connecting", "streaming"}
          /\ watchPc' = "raised"
          /\ current' = "idle"
          /\ readyQ' = Append(readyQ, "run")
          /\ UNCHANGED taskPc
       \/ /\ t \in TimerTasks /\ current = "idle"
          /\ readyQ # <<>> /\ Head(readyQ) = t /\ taskPc[t] = "ready"
          /\ taskPc' = [taskPc EXCEPT ![t] = "raised"]
          /\ readyQ' = Append(Tail(readyQ), "run")
          /\ UNCHANGED <<watchPc, current>>
    /\ escaped' = kind
    /\ UNCHANGED <<mainPc, registry, generation, loadLog, health, event,
                   eventsProcessed, eventErrors, submitCalls, lastSubmit,
                   jobsCreated, jobsFailed, activeScans, jobs,
                   second, hour, tzOffset, auxVars>>

\* task.cancel() in the finally branch (lines 567-569): a task that has not
\* ended is cancelled at the await it is suspended in
AfterCancel(pc) == IF pc = "raised" THEN pc ELSE "cancelled"

\* the gauge in run()'s except branches: only `except Exception` clears it
\* (lines 562-565)
HealthAfterEscape(kind, h) == IF kind = "Exception" THEN 0 ELSE h

\* run() is resumed with the exception: it clears the health gauge, cancels
\* the tasks and raises to its caller
RunPropagates ==
    /\ mainPc = "running" /\ escaped # "none"
    /\ current = "idle" /\ readyQ # <<>> /\ Head(readyQ) = "run"
    /\ health' = HealthAfterEscape(escaped, health)
    /\ watchPc' = AfterCancel(watchPc)
    /\ taskPc' = [t \in TimerTasks |-> AfterCancel(taskPc[t])]
    /\ readyQ' = <<>>
    /\ mainPc' = "failed"
    /\ UNCHANGED <<registry, generation, loadLog, event, eventsProcessed,
                   eventErrors, submitCalls, lastSubmit, jobsCreated, jobsFailed,
                   activeScans, jobs, current, envVars, auxVars>>

\* the state JobsSpec starts in, with no scan job in the cluster: the first
\* watch connection has failed and the task is in its retry sleep
RetryInit ==
    /\ JobsInit
    /\ jobs = <<>>
    /\ tzOffset = 0

ShutdownNext ==
    \/ CoreNext
    \/ \E t \in {"watch", "sweep", "monitor"}, kind \in EscapeKinds : TaskRaises(t, kind)
    \/ RunPropagates

ShutdownSpec == RetryInit /\ [][ShutdownNext]_vars

\* the event loop's scheduling, as in FairSpec; no exception is bound to
\* escape
FairShutdownSpec ==
    /\ ShutdownSpec
    /\ WF_vars(WatchConnect) /\ WF_vars(WatchProcessEvent)
    /\ WF_vars(WatchIdleTimeout \/ WatchNextEventOf(JobEvents) \/ WatchStreamError)
    /\ WF_vars(WatchRetryTimer) /\ WF_vars(WatchResume)
    /\ WF_vars(TaskTimer("sweep")) /\ WF_vars(TaskTimer("monitor"))
    /\ WF_vars(SweepIteration) /\ WF_vars(MonitorIteration)
    /\ WF_vars(RunPropagates)

\* the watch and the tasks around it under the event loop's scheduling, with
\* no exception escaping a loop
FairWatchSpec ==
    /\ RetryInit /\ [][CoreNext]_vars
    /\ WF_vars(WatchConnect) /\ WF_vars(WatchProcessEvent)
    /\ WF_vars(WatchIdleTimeout \/ WatchNextEventOf(JobEvents) \/ WatchStreamError)
    /\ WF_vars(WatchRetryTimer) /\ WF_vars(WatchResume)
    /\ WF_vars(TaskTimer("sweep")) /\ WF_vars(TaskTimer("monitor"))
    /\ WF_vars(SweepIteration) /\ WF_vars(MonitorIteration)

\* ------------------------------------------------------------------------
\* Definitions whose selector holds no key=value fragment
\* ------------------------------------------------------------------------
\* an empty selector, a selector that is a bare key, and a record with an
\* empty selector and no name
AppAll == [name |-> <<"H">>, namespace |-> NsTeam, labelSelector |-> <<>>,
           scanOnDeploy |-> TRUE]
AppBare == [name |-> <<"K">>, namespace |-> NsShop, labelSelector |-> <<"a">>,
            scanOnDeploy |-> TRUE]
AppAllNoName == [namespace |-> NsTeam, labelSelector |-> <<>>,
                 scanOnDeploy |-> TRUE]

OpenDocuments ==
    { DocApps(<<AppAll>>),
      DocApps(<<AppA, AppBare>>),
      DocApps(<<AppBare, AppAll>>),
      DocApps(<<AppAllNoName>>) }

OpenEvents ==
    { ev \in Events :
        ev.labels \in { EmptyDict, [k \in {Key("a")} |-> <<"1">>],
                        [k \in {Key("b")} |-> <<"1">>] } }

\* as RetryInit, the initial load having read one of OpenDocuments
OpenInit ==
    /\ \E doc \in OpenDocuments :
         LET load == LoadApplicationsConfig(<<>>, doc) IN
         /\ registry = load.registry
         /\ loadLog = load.log
    /\ generation = registry
    /\ mainPc = "running"
    /\ health = 0
    /\ watchPc = "retry_sleep"
    /\ event = NoEvent
    /\ eventsProcessed = 0
    /\ eventErrors = 0
    /\ submitCalls = 0
    /\ lastSubmit = NoJob
    /\ jobsCreated = 0
    /\ jobsFailed = 0
    /\ activeScans = 0
    /\ jobs = <<>>
    /\ taskPc = [t \in TimerTasks |-> "sleeping"]
    /\ readyQ = <<>>
    /\ current = "idle"
    /\ second = 0
    /\ hour = 0
    /\ tzOffset = 0
    /\ escaped = "none"
    /\ MatchIdle /\ LookIdle /\ SweepIdle

OpenNext ==
    \/ WatchRetryTimer
    \/ WatchResume
    \/ WatchConnect
    \/ WatchNextEventOf(OpenEvents)
    \/ WatchProcessEvent
    \/ WatchIdleTimeout
    \/ WatchStreamError
    \/ TaskTimer("sweep")
    \/ TaskTimer("monitor")
    \/ SweepIteration
    \/ MonitorIteration

OpenSpec == OpenInit /\ [][OpenNext]_vars

\* ------------------------------------------------------------------------
\* One sweep pass on its own: a job list at hour 0, a time zone, and how the
\* deletion of each listed job ends if it is tried
\* ------------------------------------------------------------------------
SweepInit ==
    /\ CtlInit /\ MatchIdle /\ LookIdle
    /\ sJobs \in InitialJobLists
    /\ sTz \in TzOffsets
    /\ sOutcome \in [1..MaxListed -> DeleteOutcomes]
    /\ sDone = FALSE
    /\ sResult = [jobs |-> <<>>, gauge |-> 0, aborted |-> FALSE]

\* the loop body of cleanup_old_jobs after its sleep, the list call succeeding
ApplySweep ==
    /\ ~sDone
    /\ sResult' = SweepJobs(SweepListed(sJobs), 1, sOutcome, CutoffTime(0, sTz),
                            [jobs |-> sJobs, gauge |-> 0, aborted |-> FALSE])
    /\ sDone' = TRUE
    /\ UNCHANGED <<ctlVars, matchVars, lookVars, sJobs, sTz, sOutcome>>

SweepNext == ApplySweep

SweepSpec == SweepInit /\ [][SweepNext]_vars

\* ------------------------------------------------------------------------
\* The lookup on its own: a registry as the loader builds it, the namespace
\* and the labels of one deployment
\* ------------------------------------------------------------------------
\* a record whose namespace is written with a ':' and whose selector is a
\* bare key; the loader indexes whatever strings the document holds
AppColon == [name |-> <<"G">>, namespace |-> <<"s",":","x">>,
             labelSelector |-> <<"a">>, scanOnDeploy |-> TRUE]

\* a second record with the namespace and the selector string of AppA
AppA2 == [name |-> <<"J">>, namespace |-> NsShop, labelSelector |-> SelA1,
          scanOnDeploy |-> TRUE]

LookupDocuments ==
    { d \in Documents : d.kind = "applications" }
      \cup { DocApps(<<AppColon, AppA>>),
             DocApps(<<AppA, AppB, AppA2>>),
             DocApps(<<AppB, AppA, AppOff, AppA2>>) }

LookupInit ==
    /\ CtlInit /\ MatchIdle /\ SweepIdle
    /\ lReg \in { LoadApplicationsConfig(<<>>, d).registry : d \in LookupDocuments }
    /\ lNs \in EventNamespaces
    /\ lLabels \in LabelSets
    /\ lDone = FALSE
    /\ lResult = [status |-> "none", index |-> 0]

\* _find_matching_application(lNs, lLabels) over the registry lReg
ApplyLookup ==
    /\ ~lDone
    /\ lResult' = FindMatchingApplication(lReg, lNs, lLabels)
    /\ lDone' = TRUE
    /\ UNCHANGED <<ctlVars, matchVars, sweepVars, lReg, lNs, lLabels>>

LookupNext == ApplyLookup

LookupSpec == LookupInit /\ [][LookupNext]_vars

\* ------------------------------------------------------------------------
\* The matcher on its own: one selector string, one label set
\* ------------------------------------------------------------------------
Fragments ==
    { <<"a","=","1">>, <<"a","=","2">>, <<"b","=","1">>, <<" ","b","=","1">>,
      <<"a">>, <<>> }

FragmentLists == UNION { [1..n -> Fragments] : n \in 1..MaxFragments }

Selectors == { Join(fs, ",") : fs \in FragmentLists }

MatchInit ==
    /\ CtlInit /\ LookIdle /\ SweepIdle
    /\ mSel \in Selectors
    /\ mLabels \in LabelSets
    /\ mDone = FALSE
    /\ mResult = FALSE

\* the selector part of _find_matching_application on (mSel, mLabels)
ApplyMatch ==
    /\ ~mDone
    /\ mResult' = Matches(mSel, mLabels)
    /\ mDone' = TRUE
    /\ UNCHANGED <<ctlVars, lookVars, sweepVars, mSel, mLabels>>

MatchNext == ApplyMatch

MatchSpec == MatchInit /\ [][MatchNext]_vars

\* ------------------------------------------------------------------------
\* Vocabulary of the properties
\* ------------------------------------------------------------------------
\* the (key, value) requirements a selector string states: one for each
\* fragment that holds an '='
RequirementPairs(sel) ==
    LET frags == SplitAll(sel, ",") IN
    { SplitFirst(Strip(frags[i]), "=") :
        i \in { j \in 1..Len(frags) : Contains(frags[j], "=") } }

\* every requirement is present in the labels with an equal value
Satisfies(sel, labels) ==
    \A p \in RequirementPairs(sel) : p[1] \in DOMAIN labels /\ labels[p[1]] = p[2]

\* entry i of the registry is a definition of the event's namespace whose
\* requirements the event's labels satisfy
DefinitionMatches(reg, i, ev) ==
    /\ reg[i].app.namespace = ev.namespace
    /\ Satisfies(reg[i].app.labelSelector, ev.labels)

MatchesSomeDefinition(reg, ev) == \E i \in 1..Len(reg) : DefinitionMatches(reg, i, ev)

\* the step in which the watch loop handles the event it pulled
HandlesEvent == watchPc = "processing" /\ watchPc' = "streaming"

\* the step is one run of the loader (initial load or periodic reload)
LoadStep ==
    \/ mainPc = "new" /\ mainPc' = "constructed"
    \/ taskPc["reload"] = "ready" /\ taskPc'["reload"] = "sleeping"

WatchFailed == watchPc \in {"retry_sleep", "retry_ready"}

\* the selector with fragment i taken out
RemoveFragment(sel, i) ==
    LET frags == SplitAll(sel, ",") IN
    Join(SubSeq(frags, 1, i-1) \o SubSeq(frags, i+1, Len(frags)), ",")

MalformedFragments(sel) ==
    LET frags == SplitAll(sel, ",") IN
    { i \in 1..Len(frags) : ~Contains(frags[i], "=") }

\* the moves of the watcher's state machine: Connecting -> Streaming,
\* Streaming -> event -> Streaming, Streaming -> Connecting on an idle
\* timeout, and on an error Streaming -> retry delay with the health flag
\* false, then Connecting
WatcherMove ==
    \/ watchPc' = watchPc
    \/ watchPc = "connecting" /\ watchPc' = "streaming"
    \/ watchPc = "streaming" /\ watchPc' \in {"processing", "connecting"}
    \/ watchPc = "processing" /\ watchPc' = "streaming"
    \/ watchPc = "streaming" /\ watchPc' = "retry_sleep" /\ health' = 0
    \/ watchPc = "retry_sleep" /\ watchPc' = "retry_ready"
    \/ watchPc = "retry_ready" /\ watchPc' = "connecting"

\* the registry holds a definition of the event's namespace whose selector
\* has no key=value fragment
HasOpenDefinition(reg, ev) ==
    \E i \in 1..Len(reg) :
       /\ reg[i].app.namespace = ev.namespace
       /\ RequirementPairs(reg[i].app.labelSelector) = {}

\* the auto-scan records of a configuration, in configuration order
AutoScanRecords(doc) ==
    SelectSeq(doc.apps, LAMBDA app : "scanOnDeploy" \in DOMAIN app /\ app.scanOnDeploy)

SamePair(r1, r2) ==
    r1.namespace = r2.namespace /\ r1.labelSelector = r2.labelSelector

\* record i is the last of the records with its (namespace, selector) pair
LastOfPair(recs, i) == \A j \in (i+1)..Len(recs) : ~SamePair(recs[i], recs[j])

\* the place in the configuration where the pair of record i first appears
FirstPlace(recs, i) ==
    CHOOSE j \in 1..i : /\ SamePair(recs[i], recs[j])
                        /\ \A k \in 1..(j-1) : ~SamePair(recs[i], recs[k])

\* the retained records that are definitions of namespace ns satisfied by
\* the labels
MatchingRecords(recs, ns, labels) ==
    { i \in 1..Len(recs) : /\ LastOfPair(recs, i)
                           /\ recs[i].namespace = ns
                           /\ Satisfies(recs[i].labelSelector, labels) }

\* among them, the one whose pair was first inserted
FirstInserted(recs, m) ==
    CHOOSE i \in m : \A j \in m : FirstPlace(recs, i) <= FirstPlace(recs, j)

\* the configurations whose load succeeds and builds the registry reg
LoadedFrom(reg) ==
    { doc \in LookupDocuments :
        LET load == LoadApplicationsConfig(<<>>, doc) IN
        load.log = "loaded" /\ load.registry = reg }

\* the step is one pass of the sweep, of the monitor
SweepStep == taskPc["sweep"] = "ready" /\ taskPc'["sweep"] = "sleeping"
MonitorStep == taskPc["monitor"] = "ready" /\ taskPc'["monitor"] = "sleeping"

JobSet(js) == { js[i] : i \in 1..Len(js) }

\* the step submits a job for the application of the previous submission,
\* within the second of that submission
SubmitsAgainInSameSecond ==
    /\ HandlesEvent
    /\ submitCalls >= 1 /\ submitCalls' = submitCalls + 1
    /\ lastSubmit'.application = lastSubmit.application
    /\ lastSubmit.name.timestamp = second

\* what a failed job creation does to the metrics and the cluster
CountedAsFailedOnly ==
    /\ jobsFailed' = jobsFailed + 1
    /\ jobsCreated' = jobsCreated
    /\ activeScans' = activeScans
    /\ jobs' = jobs

\* the job completed more than the retention window ago, at UTC hour now
OlderThanRetention(job, now) ==
    /\ "completion_time" \in DOMAIN job
    /\ now - job.completion_time > Retention

\* ------------------------------------------------------------------------
\* Properties
\* ------------------------------------------------------------------------
\* C1: in every execution in which the watch never fails (it streams events
\* or ends connections by idle timeout), the sweep, the monitor and the
\* reload each eventually get to run an iteration: each is started, ends its
\* sleep and is ready to run its loop body.
C1_NoActivityBlocksAnother ==
    ([]~WatchFailed) =>
        /\ <>(taskPc["sweep"] = "ready")
        /\ <>(taskPc["monitor"] = "ready")
        /\ <>(taskPc["reload"] = "ready")

\* C2: a watch failure clears the health flag at once, and once the
\* activities run the flag turns true again only in the step that completes
\* a successful watch iteration; no step taken while the failed iteration is
\* still waiting out its retry delay sets it.
C2_HealthRestoredOnlyBySuccess ==
    [][ /\ (WatchFailed' /\ ~WatchFailed => health' = 0)
        /\ (WatchFailed => health' = 0)
        /\ (mainPc = "running" /\ health = 0 /\ health' = 1
              => watchPc = "streaming" /\ watchPc' = "connecting") ]_vars

\* C3: a load that fails (retrieval error or malformed document) leaves the
\* registry exactly as it was before the load.
C3_FailedLoadKeepsRegistry ==
    [][LoadStep /\ loadLog' \in {"api_error", "parse_error"}
         => registry' = registry]_vars

\* C4: an Added or Modified event that matches a registered definition
\* causes exactly one submission, in the controller's namespace, with the
\* trigger of its kind and the name of a definition it matches.
C4_OneSubmissionPerQualifyingEvent ==
    [][HandlesEvent /\ event.type \in {"ADDED", "MODIFIED"}
         /\ MatchesSomeDefinition(registry, event)
         => /\ submitCalls' = submitCalls + 1
            /\ lastSubmit'.namespace = ControllerNamespace
            /\ lastSubmit'.trigger =
                 (IF event.type = "ADDED" THEN "deployment-added"
                                          ELSE "deployment-modified")
            /\ \E i \in 1..Len(registry) :
                 /\ DefinitionMatches(registry, i, event)
                 /\ "name" \in DOMAIN registry[i].app
                 /\ lastSubmit'.application = registry[i].app.name]_vars

\* C5: a Deleted event causes no submission, and neither does an Added or
\* Modified event that matches no registered definition.
C5_NoSubmissionWithoutQualifyingEvent ==
    [][HandlesEvent
         /\ (event.type = "DELETED" \/ ~MatchesSomeDefinition(registry, event))
         => submitCalls' = submitCalls /\ lastSubmit' = lastSubmit]_vars

\* C6: whenever an event is looked up, the index the lookup reads is one
\* complete generation: the index that the last completed load published.
C6_LookupSeesOneGeneration ==
    watchPc = "processing" => registry = generation

\* C7: after a load of an empty or absent configuration document the
\* registry is empty.
C7_EmptyConfigurationEmptiesRegistry ==
    loadLog = "no_configuration" => registry = <<>>

\* C8: every definition held in the registry has scanOnDeploy = true.
C8_RegistryHoldsOnlyAutoScan ==
    \A i \in 1..Len(registry) :
        /\ "scanOnDeploy" \in DOMAIN registry[i].app
        /\ registry[i].app.scanOnDeploy = TRUE

\* C8 witness: a periodic reload has failed and the registry holds a definition
C8_Witness ==
    /\ loadLog = "parse_error"
    /\ taskPc["reload"] = "sleeping"
    /\ Len(registry) > 0

\* C9: the matcher answers true exactly when every (key, value) requirement
\* of the selector is present in the labels with an equal value.
C9_MatchIsConjunction ==
    mDone => (mResult <=> Satisfies(mSel, mLabels))

\* C10: a fragment with no '=' is ignored: the matcher's answer is the
\* answer it gives for the selector with that fragment removed.
C10_MalformedFragmentIgnored ==
    mDone => \A i \in MalformedFragments(mSel) :
                 Matches(RemoveFragment(mSel, i), mLabels) = mResult

\* C10 witness: a selector with a fragment "a" and a requirement b=1 has been
\* matched against labels that satisfy the requirement and lack the key a
C10_Witness ==
    /\ mDone /\ mResult
    /\ mSel = <<"a", ",", "b", "=", "1">>
    /\ mLabels = [k \in {Key("b")} |-> <<"1">>]

\* C11: a sweep pass deletes a job only if the job has a completion time
\* older than the 24-hour retention window.
C11_SweepDeletesOnlyExpired ==
    [][SweepStep => \A job \in JobSet(jobs) \ JobSet(jobs') :
                       OlderThanRetention(job, hour)]_vars

\* C12: a monitor pass either fails at its list call and leaves the gauge as
\* it was, or leaves the gauge equal to the number of listed jobs that have
\* neither a completion time nor a failure flag, whatever the gauge held.
C12_MonitorRepublishesActiveCount ==
    [][MonitorStep =>
         \/ activeScans' = activeScans
         \/ activeScans' =
              Cardinality({ job \in JobSet(jobs) :
                             "completion_time" \notin DOMAIN job /\ ~job.failed })]_vars

\* C12 witness: no job was created, the cluster holds a running job and a
\* failed one, and a monitor pass has set the gauge from 0 to 1
C12_Witness ==
    /\ jobs = <<ManualJob, FailedJob>>
    /\ jobsCreated = 0
    /\ activeScans = 1

C14_EventFailureKeepsStream ==
    [][watchPc = "processing" /\ HandlerRaises(registry, event)
         => /\ watchPc' = "streaming"
            /\ current' = "watch"
            /\ health' = health
            /\ eventErrors' = eventErrors + 1]_vars

\* C14 witness: the event after a failed one is being handled on the same
\* connection: nothing but the failed event was handled before it, and the
\* health flag is still the one set at startup
C14_Witness ==
    /\ eventErrors = 1 /\ eventsProcessed = 1
    /\ watchPc = "processing"
    /\ health = 1

\* C15: a load that fails, at startup or on a periodic reload, leaves the
\* health flag false.
C15_LoadFailureClearsHealth ==
    [][LoadStep /\ loadLog' \in {"api_error", "parse_error"} => health' = 0]_vars

\* C16: once a task has ended with an exception its loop did not catch, the
\* orchestrator eventually raises the failure to its caller, with every task
\* that had not ended cancelled.
C16_FailurePropagates ==
    escaped # "none" ~>
        /\ mainPc = "failed"
        /\ watchPc \in {"raised", "cancelled"}
        /\ \A t \in TimerTasks : taskPc[t] \in {"raised", "cancelled"}

\* C17: whatever way the deletion of one expired job fails, the pass goes on:
\* every expired job of the list whose own deletion succeeds is deleted, and
\* no deletion failure leaves the per-job step.
C17_DeletionFailureSwallowed ==
    sDone =>
        /\ ~sResult.aborted
        /\ \A i \in 1..Len(SweepListed(sJobs)) :
             LET job == SweepListed(sJobs)[i] IN
             SweepSelects(job, CutoffTime(0, sTz)) /\ sOutcome[i] = "deleted"
               => ~NameTaken(sResult.jobs, job.name)

\* C18: the watcher only moves along Connecting -> Streaming -> (idle
\* timeout | error) -> Connecting, an error marks the health flag false and
\* puts the watcher into its retry delay, and whenever a stream has ended
\* (the watcher is connecting or in its retry delay) a new watch connection
\* is eventually open.
C18_WatcherReconnects ==
    /\ [][WatcherMove]_vars
    /\ [](watchPc \in {"connecting", "retry_sleep", "retry_ready"}
            => <>(watchPc = "streaming"))

\* C18 witness: a new connection is open after a stream error and its delay;
\* an event has been handled on it
C18_Witness ==
    /\ watchPc = "streaming"
    /\ eventsProcessed = 1
    /\ health = 1

\* C19: a lookup that returns a definition returns one whose namespace is
\* the event's namespace and whose requirements the event's labels satisfy,
\* and a lookup that returns none was made when no definition of the
\* event's namespace matches.
C19_LookupReturnsOwnNamespaceMatch ==
    lDone =>
      LET ev == [namespace |-> lNs, labels |-> lLabels] IN
      /\ lResult.status = "found" => DefinitionMatches(lReg, lResult.index, ev)
      /\ lResult.status = "none" => ~MatchesSomeDefinition(lReg, ev)

\* C20: the active-job gauge is never negative, whatever the order of job
\* creations, sweep deletions and monitor passes.
C20_GaugeNeverNegative == activeScans >= 0

\* C21: when the registry holds a definition whose selector has no valid
\* fragment, the handling of every Added or Modified event of that
\* definition's namespace, whatever the event's labels, makes one job
\* submission.
C21_OpenSelectorAlwaysSubmits ==
    [][HandlesEvent /\ event.type \in ForwardedTypes
         /\ HasOpenDefinition(registry, event)
         => submitCalls' = submitCalls + 1]_vars

\* C22: for a loaded configuration, a lookup with a namespace and labels
\* returns the definition that, among the retained definitions of that
\* namespace which the labels satisfy, has the (namespace, selector) key
\* first inserted in configuration order, and returns none when there is
\* no such definition.
C22_LookupReturnsFirstInserted ==
    lDone =>
      \A doc \in LoadedFrom(lReg) :
         LET recs == AutoScanRecords(doc)
             m == MatchingRecords(recs, lNs, lLabels)
         IN  IF m = {} THEN lResult.status = "none"
             ELSE /\ lResult.status = "found"
                  /\ lReg[lResult.index].app = recs[FirstInserted(recs, m)]

====
